---- MODULE Spec2Model ----
(***************************************************************************)
(* FamralPDF: a browser PDF editor (PDFEditTool), a merge tool             *)
(* (PDFMergeTool) and a sign tool (PDFSignTool).  Component state is the   *)
(* VARIABLES; every event handler, effect or promise continuation is one   *)
(* action.  A handler reads the state of the render it was created in, so  *)
(* an action reads the unprimed variables and an async handler keeps the   *)
(* values it captured when it was called.                                  *)
(***************************************************************************)
EXTENDS Integers, Sequences, FiniteSets, TLC

(***************************************************************************)
(* Bounds of the model                                                     *)
(***************************************************************************)
MaxRuns == 3        \* effect runs that reach getPage on one canvas
NumProps == 2       \* distinct non-blank render parameter values
MaxFiles == 3       \* files in the merge list
MaxUploads == 3     \* files ever added to the merge list
MaxMerges == 1      \* merges started
MaxSaves == 2       \* snapshots ever recorded by saveToHistory
MaxFlattenSaves == 3
MaxRotateSaves == 3
MaxSignatures == 2    \* signatures on the page at a time
MaxSigIds == 2        \* signatures ever added
MaxSignMoves == 3     \* mouse moves the sign tool handles
MaxIds == 3         \* page and element ids ever handed out
MaxPages == 2       \* pages in pageSequence
MaxDocPages == 2    \* pages of an uploaded PDF
MaxLoads == 1       \* PDFs uploaded into the editor
MaxExports == 1     \* downloads and flattens started

VARIABLES
  \* ---- one canvas and its render effect (PDFPage / PDFThumbnail / PDFSignTool)
  rProps,          \* the (pdfDoc, pageMeta | currentPage, scale) the canvas was last given
  rRuns,           \* the effect's async runs: [props, pc]
  renderTaskRef,   \* renderTaskRef.current: 0 (null) or the run whose task it holds
  canvasShown,     \* what the canvas holds
  \* ---- PDFMergeTool
  files,           \* the file list
  isMerging,
  mergeRun,        \* the mergePdfs call in flight: its closure and loop position
  mergeDownload,   \* the last merged document handed to the browser
  mergeAlert,      \* alerts shown by mergePdfs
  nextFileId,
  mergeCount,
  \* ---- PDFEditTool
  pdfDoc,            \* the pdf.js document: 0 (null) or its number of pages
  fileBytes,         \* the bytes export reads: NoBytes (null), BadBytes or a document
  pageSequence,      \* pages: [id, originalIndex, rotation, snap]
  currentPageIndex,  \* 0-based, as in the code
  elements,          \* overlay elements
  selectedId,        \* 0 is null
  editingId,         \* PDFPage's editingId, 0 is null
  toolMode,
  snaps,             \* every snapshot object saveToHistory has made
  history,           \* the history array: snapshot objects, by their place in snaps
  historyIndex,      \* 0-based, -1 when nothing is recorded
  drag,              \* isDragging, action, resizeDir, activePageId, currentPoints
  pageNumbering,     \* [enabled, format]
  pdfPassword,
  isSaving,
  loadRun,           \* handleFileUpload in flight: its file and its closure
  flattenRun,        \* flattenPDF in flight: its closure
  lastExport,        \* what the last handleDownload / flattenPDF produced
  lastResult,        \* how the last handler ended: "ok", an alert, or an uncaught error
  nextId,            \* ids handed out so far + 1 (Math.random / Date.now are fresh)
  loadCount,
  \* ---- PDFSignTool
  signPdfDoc,            \* whether a document is loaded
  signatures,            \* [id, x, y, width, height]
  selectedSignatureId,   \* 0 is null
  signIsDragging,
  dragOffset,
  resizeState,           \* NoResize (null) or the record handleResizeStart made
  signUpload,            \* handleSignatureUpload waiting for its FileReader
  nextSigId,
  signMoves              \* mouse moves handled so far

renderVars == <<rProps, rRuns, renderTaskRef, canvasShown>>
mergeVars == <<files, isMerging, mergeRun, mergeDownload, mergeAlert, nextFileId, mergeCount>>
editVars == <<pdfDoc, fileBytes, pageSequence, currentPageIndex, elements, selectedId,
              editingId, toolMode, snaps, history, historyIndex, drag, pageNumbering,
              pdfPassword, isSaving, loadRun, flattenRun, lastExport, lastResult, nextId,
              loadCount>>
signVars == <<signPdfDoc, signatures, selectedSignatureId, signIsDragging, dragOffset,
              resizeState, signUpload, nextSigId, signMoves>>
vars == <<renderVars, mergeVars, editVars, signVars>>

(***************************************************************************)
(* Sequence helpers                                                        *)
(***************************************************************************)
RECURSIVE SeqSum(_)
SeqSum(s) == IF s = <<>> THEN 0 ELSE Head(s) + SeqSum(Tail(s))

RemoveAt(s, i) == SubSeq(s, 1, i - 1) \o SubSeq(s, i + 1, Len(s))

InsertAt(s, i, x) == SubSeq(s, 1, i - 1) \o <<x>> \o SubSeq(s, i, Len(s))

Swap(s, i, j) == [s EXCEPT ![i] = s[j], ![j] = s[i]]

(***************************************************************************)
(* The render effect.  Props 0 is a blank page (originalIndex = -1), the   *)
(* others stand for a (document, page, rotation, scale) combination.       *)
(***************************************************************************)
NoProps == -1
BlankProps == 0
Props == 0..NumProps

\* renderTaskRef.current.cancel(): a task still rendering is cancelled (its promise
\* rejects with RenderingCancelledException, which the run swallows); cancel() on a
\* settled task does nothing.
CancelTask(ref, runs) ==
  IF ref # 0 /\ runs[ref].pc = "rendering"
  THEN [runs EXCEPT ![ref].pc = "cancelled"]
  ELSE runs

\* The effect's cleanup.
EffectCleanup(ref, runs) == CancelTask(ref, runs)

\* The dependencies changed (or the component mounted): cleanup of the previous
\* effect, then render() up to its first await.  A page is blank only from its
\* mount on: blank pages get fresh ids, and the page of an id never turns blank.
RenderEffect(p) ==
  /\ p # rProps
  /\ p = BlankProps => rProps = NoProps
  /\ Len(rRuns) < MaxRuns
  /\ rProps' = p
  /\ LET cleaned == EffectCleanup(renderTaskRef, rRuns)
         runs1 == CancelTask(renderTaskRef, cleaned)
     IN IF p = BlankProps
        THEN /\ rRuns' = runs1
             /\ canvasShown' = BlankProps
        ELSE /\ rRuns' = Append(runs1, [props |-> p, pc |-> "getPage"])
             /\ canvasShown' = canvasShown
  /\ UNCHANGED renderTaskRef
  /\ UNCHANGED <<mergeVars, editVars, signVars>>

\* await pdfDoc.getPage resolves: the canvas is resized (which clears it), the
\* render task is started and stored in renderTaskRef.
GetPageResolve(i) ==
  /\ rRuns[i].pc = "getPage"
  /\ rRuns' = [rRuns EXCEPT ![i].pc = "rendering"]
  /\ renderTaskRef' = i
  /\ canvasShown' = NoProps
  /\ UNCHANGED rProps
  /\ UNCHANGED <<mergeVars, editVars, signVars>>

\* getPage rejects: console.error
GetPageReject(i) ==
  /\ rRuns[i].pc = "getPage"
  /\ rRuns' = [rRuns EXCEPT ![i].pc = "failed"]
  /\ UNCHANGED <<rProps, renderTaskRef, canvasShown>>
  /\ UNCHANGED <<mergeVars, editVars, signVars>>

\* await renderTask.promise resolves: the page of that run is on the canvas.
RenderComplete(i) ==
  /\ rRuns[i].pc = "rendering"
  /\ rRuns' = [rRuns EXCEPT ![i].pc = "done"]
  /\ canvasShown' = rRuns[i].props
  /\ UNCHANGED <<rProps, renderTaskRef>>
  /\ UNCHANGED <<mergeVars, editVars, signVars>>

\* renderTask.promise rejects with another error than a cancellation: console.error
RenderReject(i) ==
  /\ rRuns[i].pc = "rendering"
  /\ rRuns' = [rRuns EXCEPT ![i].pc = "failed"]
  /\ UNCHANGED <<rProps, renderTaskRef, canvasShown>>
  /\ UNCHANGED <<mergeVars, editVars, signVars>>

RenderInit ==
  /\ rProps = NoProps
  /\ rRuns = <<>>
  /\ renderTaskRef = 0
  /\ canvasShown = NoProps

NextRender ==
  \/ \E p \in Props : RenderEffect(p)
  \/ \E i \in DOMAIN rRuns : GetPageResolve(i)
  \/ \E i \in DOMAIN rRuns : GetPageReject(i)
  \/ \E i \in DOMAIN rRuns : RenderComplete(i)
  \/ \E i \in DOMAIN rRuns : RenderReject(i)

(***************************************************************************)
(* PDFMergeTool                                                            *)
(***************************************************************************)
\* The files a user can pick: their page counts; 0 pages marks a file that
\* PDFDocument.load rejects.
FileKinds == {"A", "B", "X"}
NumPagesOf(f) == CASE f = "A" -> 1 [] f = "B" -> 2 [] OTHER -> 0
IsValidPdf(f) == NumPagesOf(f) > 0

\* pdf.getPageIndices() / copyPages: the pages of a file, in their order
PagesOf(f) == [k \in 1..NumPagesOf(f) |-> <<f, k>>]

NoRun == [active |-> FALSE]
NoDoc == [pages |-> <<>>, listed |-> <<>>, current |-> <<>>, n |-> 0]

MergeHandleFileUpload(f) ==
  /\ Len(files) < MaxFiles
  /\ nextFileId <= MaxUploads
  /\ files' = Append(files, [id |-> nextFileId, file |-> f])
  /\ nextFileId' = nextFileId + 1
  /\ UNCHANGED <<isMerging, mergeRun, mergeDownload, mergeAlert, mergeCount>>
  /\ UNCHANGED <<renderVars, editVars, signVars>>

removeFile(id) ==
  /\ files' = SelectSeq(files, LAMBDA f : f.id # id)
  /\ UNCHANGED <<isMerging, mergeRun, mergeDownload, mergeAlert, nextFileId, mergeCount>>
  /\ UNCHANGED <<renderVars, editVars, signVars>>

moveFile(index, direction) ==
  /\ ~ ((direction = "up" /\ index = 1) \/ (direction = "down" /\ index = Len(files)))
  /\ LET targetIndex == IF direction = "up" THEN index - 1 ELSE index + 1
     IN files' = Swap(files, index, targetIndex)
  /\ UNCHANGED <<isMerging, mergeRun, mergeDownload, mergeAlert, nextFileId, mergeCount>>
  /\ UNCHANGED <<renderVars, editVars, signVars>>

\* mergePdfs up to its first await.  The button is disabled with fewer than two
\* files or while merging.
mergePdfs ==
  /\ Len(files) >= 2 /\ ~ isMerging
  /\ Len(files) # 0
  /\ mergeCount < MaxMerges
  /\ isMerging' = TRUE
  /\ mergeRun' = [active |-> TRUE, files |-> files, i |-> 1, mergedPdf |-> <<>>]
  /\ mergeCount' = mergeCount + 1
  /\ UNCHANGED <<files, mergeDownload, mergeAlert, nextFileId>>
  /\ UNCHANGED <<renderVars, editVars, signVars>>

\* (a loop that walked the list as it is now)
MergeLoopFilesLive(run) == files
\* The list the for-of loop of mergePdfs walks: the one of its closure.
MergeLoopFiles(run) == run.files

\* copiedPages.forEach(page => mergedPdf.addPage(page))
AddCopiedPages(doc, f) == doc \o PagesOf(f)

\* (a catch that handed the pages merged so far to the browser)
MergeFailedPartial ==
  /\ mergeAlert' = mergeAlert + 1
  /\ isMerging' = FALSE
  /\ mergeDownload' = [pages |-> mergeRun.mergedPdf, listed |-> mergeRun.files,
                        current |-> files, n |-> mergeCount]
  /\ mergeRun' = NoRun
  /\ UNCHANGED <<files, nextFileId, mergeCount>>
\* catch: alert; finally: setIsMerging(false)
MergeFailed ==
  /\ mergeAlert' = mergeAlert + 1
  /\ isMerging' = FALSE
  /\ mergeRun' = NoRun
  /\ UNCHANGED <<files, mergeDownload, nextFileId, mergeCount>>

\* One iteration of the loop: arrayBuffer, load, copyPages, addPage
MergeFileStep ==
  /\ mergeRun.active
  /\ mergeRun.i <= Len(MergeLoopFiles(mergeRun))
  /\ LET pdfFile == MergeLoopFiles(mergeRun)[mergeRun.i]
     IN \E ok \in BOOLEAN :
          IF ok /\ IsValidPdf(pdfFile.file)
          THEN /\ mergeRun' = [mergeRun EXCEPT !.i = @ + 1,
                                 !.mergedPdf = AddCopiedPages(@, pdfFile.file)]
               /\ UNCHANGED <<files, isMerging, mergeDownload, mergeAlert, nextFileId, mergeCount>>
          ELSE MergeFailed
  /\ UNCHANGED <<renderVars, editVars, signVars>>

\* After the loop: save and download, or the save fails
MergeSave ==
  /\ mergeRun.active
  /\ mergeRun.i > Len(MergeLoopFiles(mergeRun))
  /\ \E ok \in BOOLEAN :
       IF ok
       THEN /\ mergeDownload' = [pages |-> mergeRun.mergedPdf, listed |-> mergeRun.files,
                                 current |-> files, n |-> mergeCount]
            /\ isMerging' = FALSE
            /\ mergeRun' = NoRun
            /\ UNCHANGED <<files, mergeAlert, nextFileId, mergeCount>>
       ELSE MergeFailed
  /\ UNCHANGED <<renderVars, editVars, signVars>>

MergeInit ==
  /\ files = <<>>
  /\ isMerging = FALSE
  /\ mergeRun = NoRun
  /\ mergeDownload = NoDoc
  /\ mergeAlert = 0
  /\ nextFileId = 1
  /\ mergeCount = 0

NextMerge ==
  \/ \E f \in FileKinds : MergeHandleFileUpload(f)
  \/ \E i \in DOMAIN files : removeFile(files[i].id)
  \/ \E i \in DOMAIN files, d \in {"up", "down"} : moveFile(i, d)
  \/ mergePdfs
  \/ MergeFileStep
  \/ MergeSave

(***************************************************************************)
(* PDFEditTool: pages, elements and the undo history                       *)
(***************************************************************************)
HistoryLimit == 30

NoBytes == [kind |-> "null", pages |-> <<>>]
BadBytes == [kind |-> "invalid", pages |-> <<>>]
PdfBytes(pages) == [kind |-> "pdf", pages |-> pages]
NoExport == [kind |-> "none", n |-> 0]
NoDir == <<>>          \* resizeDir === null
Idle == [isDragging |-> FALSE, action |-> "null", resizeDir |-> NoDir,
         activePageId |-> 0, newElStart |-> <<0, 0>>, currentPoints |-> <<>>,
         moves |-> 0]

docVars == <<pdfDoc, fileBytes>>
histVars == <<snaps, history, historyIndex>>
uiVars == <<toolMode, drag, editingId>>
cfgVars == <<pageNumbering, pdfPassword>>
asyncVars == <<isSaving, loadRun, flattenRun>>

\* A page object without the bookkeeping of which snapshot shares it.
PageVal(p) == [id |-> p.id, originalIndex |-> p.originalIndex, rotation |-> p.rotation]
PageVals(seq) == [i \in DOMAIN seq |-> PageVal(seq[i])]

\* A page object of pageSequence.  snap is 0 for an object only pageSequence
\* holds, and otherwise the snapshot whose sequence holds this very object.
PageObj(v, sid) == [id |-> v.id, originalIndex |-> v.originalIndex,
                    rotation |-> v.rotation, snap |-> sid]

IndexOfId(seq, id) == CHOOSE i \in DOMAIN seq : seq[i].id = id
HasId(seq, id) == \E i \in DOMAIN seq : seq[i].id = id

\* saveToHistory, called from a render whose history and historyIndex are hist and
\* histIdx: clone, cut the redo tail, push, drop the oldest beyond the limit.
saveToHistory(newElements, newSequence, hist, histIdx, sn) ==
  LET clonedElements == newElements
      clonedSequence == PageVals(newSequence)
      sn1 == Append(sn, [elements |-> clonedElements, sequence |-> clonedSequence])
      pushed == Append(SubSeq(hist, 1, histIdx + 1), Len(sn1))
      newHistory == IF Len(pushed) > HistoryLimit THEN Tail(pushed) ELSE pushed
  IN [snaps |-> sn1, history |-> newHistory, historyIndex |-> Len(newHistory) - 1]

\* setHistory(newHistory); setHistoryIndex(newHistory.length - 1)
Record(h) ==
  /\ snaps' = h.snaps
  /\ history' = h.history
  /\ historyIndex' = h.historyIndex

CanSave == Len(snaps) < MaxSaves
\* A flatten in flight may record one snapshot more than the edits made
\* meanwhile, so that it can end after an undo of them.
CanSaveFlatten == Len(snaps) < MaxFlattenSaves
\* The rotation of a page that undo or redo restored adds no page and no
\* element; it may record one snapshot more, so that it can follow them.
CanSaveRotate(page) == page.snap # 0 /\ Len(snaps) < MaxRotateSaves

\* The editor state undo and redo read and write.
Cur == [elements |-> elements, pageSequence |-> pageSequence,
        historyIndex |-> historyIndex, selectedId |-> selectedId]

\* [...snapshot.sequence]: a new array of the snapshot's own page objects
Restore(st, sid, idx) ==
  [elements |-> snaps[sid].elements,
   pageSequence |-> [i \in DOMAIN snaps[sid].sequence |-> PageObj(snaps[sid].sequence[i], sid)],
   historyIndex |-> idx,
   selectedId |-> 0]

UndoOf(st) ==
  IF st.historyIndex > 0
  THEN Restore(st, history[st.historyIndex], st.historyIndex - 1)
  ELSE st

RedoOf(st) ==
  IF st.historyIndex < Len(history) - 1
  THEN Restore(st, history[st.historyIndex + 2], st.historyIndex + 1)
  ELSE st

SetCur(st) ==
  /\ elements' = st.elements
  /\ pageSequence' = st.pageSequence
  /\ historyIndex' = st.historyIndex
  /\ selectedId' = st.selectedId

\* The Undo button is disabled when historyIndex <= 0
undo ==
  /\ historyIndex > 0
  /\ SetCur(UndoOf(Cur))
  /\ lastResult' = "ok"
  /\ UNCHANGED <<docVars, currentPageIndex, snaps, history, uiVars, cfgVars, asyncVars,
                 lastExport, nextId, loadCount>>
  /\ UNCHANGED <<renderVars, mergeVars, signVars>>

\* The Redo button is disabled when historyIndex >= history.length - 1
redo ==
  /\ historyIndex < Len(history) - 1
  /\ SetCur(RedoOf(Cur))
  /\ lastResult' = "ok"
  /\ UNCHANGED <<docVars, currentPageIndex, snaps, history, uiVars, cfgVars, asyncVars,
                 lastExport, nextId, loadCount>>
  /\ UNCHANGED <<renderVars, mergeVars, signVars>>

\* Reset button: confirm("Clear all elements?") then setElements([])
ResetButton ==
  /\ elements' = <<>>
  /\ lastResult' = "ok"
  /\ UNCHANGED <<docVars, pageSequence, currentPageIndex, selectedId, histVars, uiVars,
                 cfgVars, asyncVars, lastExport, nextId, loadCount>>
  /\ UNCHANGED <<renderVars, mergeVars, signVars>>

\* New Document: setPdfDoc(null); setPageSequence([one blank page])
NewDocument ==
  /\ nextId <= MaxIds
  /\ pdfDoc' = 0
  /\ pageSequence' = <<[id |-> nextId, originalIndex |-> -1, rotation |-> 0, snap |-> 0]>>
  /\ nextId' = nextId + 1
  /\ lastResult' = "ok"
  /\ UNCHANGED <<fileBytes, currentPageIndex, elements, selectedId, histVars, uiVars,
                 cfgVars, asyncVars, lastExport, loadCount>>
  /\ UNCHANGED <<renderVars, mergeVars, signVars>>

\* A thumbnail is clicked: scrollToPage(pageId)
scrollToPage(pageId) ==
  /\ HasId(pageSequence, pageId)
  /\ currentPageIndex' = IndexOfId(pageSequence, pageId) - 1
  /\ lastResult' = "ok"
  /\ UNCHANGED <<docVars, pageSequence, elements, selectedId, histVars, uiVars, cfgVars,
                 asyncVars, lastExport, nextId, loadCount>>
  /\ UNCHANGED <<renderVars, mergeVars, signVars>>

\* An uncaught TypeError in a handler: nothing is set.
Throws ==
  /\ lastResult' = "TypeError"
  /\ UNCHANGED <<docVars, pageSequence, currentPageIndex, elements, selectedId, histVars,
                 uiVars, cfgVars, asyncVars, lastExport, nextId, loadCount>>

(***************************************************************************)
(* Page organisation                                                       *)
(***************************************************************************)
NoIndex == -1     \* specificIndex === undefined

ElementsOn(els, pageId) == SelectSeq(els, LAMBDA el : el.pageId = pageId)
ElementsOff(els, pageId) == SelectSeq(els, LAMBDA el : el.pageId # pageId)

\* newSequence[targetIdx].rotation = r assigns to the page object itself: the
\* object is also the one a snapshot holds when pageSequence came from undo/redo.
AssignRotation(sn, page, r) ==
  IF page.snap = 0
  THEN sn
  ELSE [sn EXCEPT ![page.snap].sequence =
          [i \in DOMAIN @ |-> IF @[i].id = page.id THEN [@[i] EXCEPT !.rotation = r] ELSE @[i]]]

RotateBy(rotation, param) == (rotation + (IF param = "cw" THEN 90 ELSE -90) + 360) % 360

\* if (newSequence.length > 1) of the delete case
DeleteAllowed(seq) == Len(seq) > 1

\* The switch of organizeAction for a targetIdx inside pageSequence: the new
\* sequence, elements, current page, snapshot store and id counter; ok is FALSE
\* for the refused delete.
OrganizeSwitch(type, param, targetIdx) ==
  LET t == targetIdx + 1
      page == pageSequence[t]
      same == [ok |-> TRUE, seq |-> pageSequence, els |-> elements,
               cur |-> currentPageIndex, sn |-> snaps, next |-> nextId]
  IN CASE type = "rotate" ->
            LET r == RotateBy(page.rotation, param)
            IN [same EXCEPT !.seq = [pageSequence EXCEPT ![t].rotation = r],
                            !.sn = AssignRotation(snaps, page, r)]
       [] type = "move" ->
            LET moveTarget == IF param = "up" THEN targetIdx - 1 ELSE targetIdx + 1
            IN IF moveTarget >= 0 /\ moveTarget < Len(pageSequence)
               THEN [same EXCEPT !.seq = Swap(pageSequence, t, moveTarget + 1),
                                 !.cur = moveTarget]
               ELSE same
       [] type = "delete" ->
            IF DeleteAllowed(pageSequence)
            THEN [same EXCEPT !.seq = RemoveAt(pageSequence, t),
                              !.els = ElementsOff(elements, page.id),
                              !.cur = IF targetIdx - 1 > 0 THEN targetIdx - 1 ELSE 0]
            ELSE [same EXCEPT !.ok = FALSE]
       [] type = "duplicate" ->
            LET newId == nextId
                currentElements == ElementsOn(elements, page.id)
                clonedElements == [i \in DOMAIN currentElements |->
                                     [currentElements[i] EXCEPT !.id = newId + i, !.pageId = newId]]
            IN [same EXCEPT !.seq = InsertAt(pageSequence, t + 1,
                                             [page EXCEPT !.id = newId, !.snap = 0]),
                            !.els = elements \o clonedElements,
                            !.cur = targetIdx + 1,
                            !.next = newId + Len(currentElements) + 1]
       [] OTHER ->   \* "blank"
            [same EXCEPT !.seq = InsertAt(pageSequence, t + 1,
                                   [id |-> nextId, originalIndex |-> -1, rotation |-> 0, snap |-> 0]),
                         !.cur = targetIdx + 1,
                         !.next = nextId + 1]

organizeAction(type, param, specificIndex) ==
  LET targetIdx == IF specificIndex # NoIndex THEN specificIndex ELSE currentPageIndex
  IN IF targetIdx + 1 \notin DOMAIN pageSequence
     THEN \* pageSequence[targetIdx].id of undefined
          Throws
     ELSE LET res == OrganizeSwitch(type, param, targetIdx)
          IN IF ~ res.ok
             THEN /\ lastResult' = "alert: Document must have at least one page."
                  /\ UNCHANGED <<docVars, pageSequence, currentPageIndex, elements, selectedId,
                                 histVars, uiVars, cfgVars, asyncVars, lastExport, nextId,
                                 loadCount>>
             ELSE /\ CanSave \/ (type = "rotate" /\ CanSaveRotate(pageSequence[targetIdx + 1]))
                  /\ Len(res.seq) <= MaxPages
                  /\ res.next <= MaxIds + 1
                  /\ pageSequence' = res.seq
                  /\ elements' = res.els
                  /\ currentPageIndex' = res.cur
                  /\ nextId' = res.next
                  /\ Record(saveToHistory(res.els, res.seq, history, historyIndex, res.sn))
                  /\ lastResult' = "ok"
                  /\ UNCHANGED <<docVars, selectedId, uiVars, cfgVars, asyncVars, lastExport,
                                 loadCount>>

\* The Organize tab's buttons act on the current page; Up and Down are disabled
\* at the ends.  A thumbnail's buttons rotate or delete that thumbnail's page.
OrganizeToolbar(type, param) ==
  /\ type = "move" /\ param = "up" => currentPageIndex # 0
  /\ type = "move" /\ param = "down" => currentPageIndex # Len(pageSequence) - 1
  /\ organizeAction(type, param, NoIndex)
  /\ UNCHANGED <<renderVars, mergeVars, signVars>>

OrganizeThumbnail(type, i) ==
  /\ i + 1 \in DOMAIN pageSequence
  /\ organizeAction(type, "cw", i)
  /\ UNCHANGED <<renderVars, mergeVars, signVars>>

\* A thumbnail is dropped on another one
handlePageDrop(sourceIndex, targetIndex) ==
  /\ sourceIndex + 1 \in DOMAIN pageSequence
  /\ targetIndex + 1 \in DOMAIN pageSequence
  /\ sourceIndex # targetIndex
  /\ CanSave
  /\ LET movedPage == pageSequence[sourceIndex + 1]
         newSequence == InsertAt(RemoveAt(pageSequence, sourceIndex + 1), targetIndex + 1, movedPage)
     IN /\ pageSequence' = newSequence
        /\ Record(saveToHistory(elements, newSequence, history, historyIndex, snaps))
  /\ currentPageIndex' = targetIndex
  /\ lastResult' = "ok"
  /\ UNCHANGED <<docVars, elements, selectedId, uiVars, cfgVars, asyncVars, lastExport,
                 nextId, loadCount>>
  /\ UNCHANGED <<renderVars, mergeVars, signVars>>

(***************************************************************************)
(* Overlay elements                                                        *)
(***************************************************************************)
MinResize == 10        \* Math.max(10, ...) of a resize
MinCreate == 20        \* Math.max(20, ...) of a new shape
MinTextWidth == 40     \* Math.max(40, target.scrollWidth)
MinTextHeight == 20    \* Math.max(20, target.scrollHeight)
MinDrag == 5           \* Math.abs(w) > 5 || Math.abs(h) > 5
MaxCoord == 60         \* the model keeps positions and sizes within 0..MaxCoord
MaxPoints == 3         \* points of one freehand stroke
MaxMoves == 2          \* mousemove events followed in one move, resize or rotate

ToolModes == {"select", "text", "draw", "highlight", "eraser", "rect", "circle",
              "line", "arrow", "redact"}
Colors == {"#000000", "#ef4444"}
Deltas == {-30, 30}
Releases == {<<3, 3>>, <<30, 3>>, <<-30, 30>>}
DrawPoints == {<<13, 10>>, <<40, 40>>}
StartPoints == {<<10, 10>>}
StrokeEnds == {<<40, 40>>}
ScrollSizes == {10, 50}
Angles == {0, 45}
ResizeDirs == {<<"n", "w">>, <<"n", "e">>, <<"s", "w">>, <<"s", "e">>}
Texts == {"Type here...", "abc"}

Max(a, b) == IF a > b THEN a ELSE b
Min(a, b) == IF a < b THEN a ELSE b
Abs(a) == IF a < 0 THEN -a ELSE a
SeqMin(s) == CHOOSE m \in {s[i] : i \in DOMAIN s} : \A i \in DOMAIN s : m <= s[i]
SeqMax(s) == CHOOSE m \in {s[i] : i \in DOMAIN s} : \A i \in DOMAIN s : m >= s[i]

NewElement(id, pageId, type, x, y, width, height, color, content, points) ==
  [id |-> id, pageId |-> pageId, type |-> type, x |-> x, y |-> y, width |-> width,
   height |-> height, color |-> color, content |-> content, rotation |-> 0,
   points |-> points]

MapSelected(els, id, F(_)) == [i \in DOMAIN els |-> IF els[i].id = id THEN F(els[i]) ELSE els[i]]

selectedElement == SelectSeq(elements, LAMBDA el : el.id = selectedId)
HasSelectedElement == selectedId # 0 /\ selectedElement # <<>>

\* reader.onload of handleImageUpload
handleImageUpload ==
  /\ IF currentPageIndex + 1 \notin DOMAIN pageSequence
     THEN Throws
     ELSE /\ CanSave /\ nextId <= MaxIds
          /\ LET newEl == NewElement(nextId, pageSequence[currentPageIndex + 1].id, "image",
                                     100, 100, 200, 150, "#000", "", <<>>)
                 updated == Append(elements, newEl)
             IN /\ elements' = updated
                /\ Record(saveToHistory(updated, pageSequence, history, historyIndex, snaps))
                /\ selectedId' = newEl.id
          /\ toolMode' = "select"
          /\ nextId' = nextId + 1
          /\ lastResult' = "ok"
          /\ UNCHANGED <<docVars, pageSequence, currentPageIndex, drag, editingId, cfgVars,
                         asyncVars, lastExport, loadCount>>
  /\ UNCHANGED <<renderVars, mergeVars, signVars>>

\* "Use Signature" of the Draw Signature dialog
UseSignature ==
  /\ IF currentPageIndex + 1 \notin DOMAIN pageSequence
     THEN Throws
     ELSE /\ CanSave /\ nextId <= MaxIds
          /\ LET newEl == NewElement(nextId, pageSequence[currentPageIndex + 1].id, "image",
                                     50, 50, 150, 75, "#000", "", <<>>)
             IN /\ elements' = Append(elements, newEl)
                /\ selectedId' = newEl.id
                /\ Record(saveToHistory(Append(elements, newEl), pageSequence, history,
                                        historyIndex, snaps))
          /\ nextId' = nextId + 1
          /\ lastResult' = "ok"
          /\ UNCHANGED <<docVars, pageSequence, currentPageIndex, uiVars, cfgVars, asyncVars,
                         lastExport, loadCount>>
  /\ UNCHANGED <<renderVars, mergeVars, signVars>>

\* Delete of the properties panel: setElements(prev => prev.filter(...));
\* setSelectedId(null); saveToHistory() -- saveToHistory's default arguments are
\* the elements and pageSequence of the render the click happened in.
PanelDelete ==
  /\ HasSelectedElement
  /\ CanSave
  /\ elements' = SelectSeq(elements, LAMBDA e : e.id # selectedId)
  /\ selectedId' = 0
  /\ Record(saveToHistory(elements, pageSequence, history, historyIndex, snaps))
  /\ lastResult' = "ok"
  /\ UNCHANGED <<docVars, pageSequence, currentPageIndex, uiVars, cfgVars, asyncVars,
                 lastExport, nextId, loadCount>>
  /\ UNCHANGED <<renderVars, mergeVars, signVars>>

\* updateSelectedElement({ color: c }); saveToHistory(); -- a Theme Color button
\* (not shown for a redact element)
PanelColor(c) ==
  /\ HasSelectedElement
  /\ selectedElement[1].type # "redact"
  /\ CanSave
  /\ elements' = MapSelected(elements, selectedId, LAMBDA el : [el EXCEPT !.color = c])
  /\ Record(saveToHistory(elements, pageSequence, history, historyIndex, snaps))
  /\ lastResult' = "ok"
  /\ UNCHANGED <<docVars, pageSequence, currentPageIndex, selectedId, uiVars, cfgVars,
                 asyncVars, lastExport, nextId, loadCount>>
  /\ UNCHANGED <<renderVars, mergeVars, signVars>>

bringToFront ==
  /\ HasSelectedElement
  /\ CanSave
  /\ LET newElements == SelectSeq(elements, LAMBDA e : e.id # selectedId) \o selectedElement
     IN /\ elements' = newElements
        /\ Record(saveToHistory(newElements, pageSequence, history, historyIndex, snaps))
  /\ lastResult' = "ok"
  /\ UNCHANGED <<docVars, pageSequence, currentPageIndex, selectedId, uiVars, cfgVars,
                 asyncVars, lastExport, nextId, loadCount>>
  /\ UNCHANGED <<renderVars, mergeVars, signVars>>

setToolMode(m) ==
  /\ toolMode' = m
  /\ lastResult' = "ok"
  /\ UNCHANGED <<docVars, pageSequence, currentPageIndex, elements, selectedId, histVars,
                 drag, editingId, cfgVars, asyncVars, lastExport, nextId, loadCount>>
  /\ UNCHANGED <<renderVars, mergeVars, signVars>>

\* onActionStart
ActionStart(act, dir, start, pId) ==
  drag' = [isDragging |-> TRUE, action |-> act, resizeDir |-> dir, activePageId |-> pId,
           newElStart |-> start,
           currentPoints |-> IF act = "drawing" THEN <<start>> ELSE drag.currentPoints,
           moves |-> 0]

\* onMouseDown of a page
PageMouseDown(i, start) ==
  /\ i \in DOMAIN pageSequence
  /\ ~ (pdfDoc = 0 /\ pageSequence[i].originalIndex # -1)
  /\ IF toolMode = "select"
     THEN /\ selectedId' = 0
          /\ editingId' = 0
          /\ UNCHANGED drag
     ELSE /\ ActionStart(IF toolMode \in {"draw", "highlight"} THEN "drawing" ELSE "creating",
                         NoDir, start, pageSequence[i].id)
          /\ UNCHANGED <<selectedId, editingId>>
  /\ lastResult' = "ok"
  /\ UNCHANGED <<docVars, pageSequence, currentPageIndex, elements, histVars, toolMode,
                 cfgVars, asyncVars, lastExport, nextId, loadCount>>
  /\ UNCHANGED <<renderVars, mergeVars, signVars>>

\* onMouseDown of an element, in select mode
ElementMouseDown(k) ==
  /\ k \in DOMAIN elements
  /\ HasId(pageSequence, elements[k].pageId)
  /\ toolMode = "select"
  /\ IF selectedId = elements[k].id /\ elements[k].type = "text"
     THEN /\ editingId' = elements[k].id
          /\ UNCHANGED <<selectedId, drag>>
     ELSE /\ selectedId' = elements[k].id
          /\ ActionStart("moving", NoDir, <<0, 0>>, elements[k].pageId)
          /\ UNCHANGED editingId
  /\ lastResult' = "ok"
  /\ UNCHANGED <<docVars, pageSequence, currentPageIndex, elements, histVars, toolMode,
                 cfgVars, asyncVars, lastExport, nextId, loadCount>>
  /\ UNCHANGED <<renderVars, mergeVars, signVars>>

\* onMouseDown of a corner handle of the selected element
ResizeHandleMouseDown(dir) ==
  /\ HasSelectedElement
  /\ HasId(pageSequence, selectedElement[1].pageId)
  /\ editingId # selectedId
  /\ ActionStart("resizing", dir, <<0, 0>>, selectedElement[1].pageId)
  /\ lastResult' = "ok"
  /\ UNCHANGED <<docVars, pageSequence, currentPageIndex, elements, selectedId, histVars,
                 toolMode, editingId, cfgVars, asyncVars, lastExport, nextId, loadCount>>
  /\ UNCHANGED <<renderVars, mergeVars, signVars>>

\* onMouseDown of the rotate handle of the selected element
RotateHandleMouseDown ==
  /\ HasSelectedElement
  /\ HasId(pageSequence, selectedElement[1].pageId)
  /\ ActionStart("rotating", NoDir, <<0, 0>>, selectedElement[1].pageId)
  /\ lastResult' = "ok"
  /\ UNCHANGED <<docVars, pageSequence, currentPageIndex, elements, selectedId, histVars,
                 toolMode, editingId, cfgVars, asyncVars, lastExport, nextId, loadCount>>
  /\ UNCHANGED <<renderVars, mergeVars, signVars>>

\* The model lets a gesture change a coordinate or size only within 0..MaxCoord
\* (or back towards it).
Bounded(old, new) == new >= Min(0, old) /\ new <= Max(MaxCoord, old)

Includes(dir, c) == \E i \in DOMAIN dir : dir[i] = c

\* (a resize without the Math.max(10, ...) of the code)
ResizeNoMin(item, dir, dx, dy) ==
  LET w1 == IF Includes(dir, "e") THEN item.width + dx ELSE item.width
      h1 == IF Includes(dir, "s") THEN item.height + dy ELSE item.height
      ex == IF Includes(dir, "w") THEN item.x + dx ELSE item.x
      w2 == IF Includes(dir, "w") THEN w1 - dx ELSE w1
      ey == IF Includes(dir, "n") THEN item.y + dy ELSE item.y
      h2 == IF Includes(dir, "n") THEN h1 - dy ELSE h1
  IN [item EXCEPT !.x = ex, !.y = ey, !.width = w2, !.height = h2]
\* The resizing branch of handleMouseMove, for the selected element
Resize(item, dir, dx, dy) ==
  LET w1 == IF Includes(dir, "e") THEN item.width + dx ELSE item.width
      h1 == IF Includes(dir, "s") THEN item.height + dy ELSE item.height
      ex == IF Includes(dir, "w") THEN item.x + dx ELSE item.x
      w2 == IF Includes(dir, "w") THEN w1 - dx ELSE w1
      ey == IF Includes(dir, "n") THEN item.y + dy ELSE item.y
      h2 == IF Includes(dir, "n") THEN h1 - dy ELSE h1
  IN [item EXCEPT !.x = ex, !.y = ey, !.width = Max(MinResize, w2),
                  !.height = Max(MinResize, h2)]

WithinModel(old, new) ==
  /\ Bounded(old.x, new.x) /\ Bounded(old.y, new.y)
  /\ Bounded(old.width, new.width) /\ Bounded(old.height, new.height)

\* The model follows at most MaxMoves mousemove events of one move, resize or
\* rotate gesture (a stroke is bounded by MaxPoints).
Moved ==
  /\ drag.moves < MaxMoves
  /\ drag' = [drag EXCEPT !.moves = @ + 1]

\* handleMouseMove: the pointer moved by (dx, dy) since the last event, to the
\* point pt of the active page; ang is the angle the rotating branch computes.
handleMouseMove(dx, dy, pt, ang) ==
  /\ drag.isDragging
  /\ CASE drag.action = "drawing" ->
            /\ HasId(pageSequence, drag.activePageId)
            /\ Len(drag.currentPoints) < MaxPoints
            /\ drag' = [drag EXCEPT !.currentPoints = Append(@, pt)]
            /\ UNCHANGED elements
       [] drag.action = "moving" /\ selectedId # 0 ->
            /\ elements' = MapSelected(elements, selectedId,
                             LAMBDA el : [el EXCEPT !.x = el.x + dx, !.y = el.y + dy])
            /\ \A i \in DOMAIN elements : WithinModel(elements[i], elements'[i])
            /\ Moved
       [] drag.action = "resizing" /\ selectedId # 0 /\ drag.resizeDir # NoDir ->
            /\ elements' = MapSelected(elements, selectedId,
                             LAMBDA item : Resize(item, drag.resizeDir, dx, dy))
            /\ \A i \in DOMAIN elements : WithinModel(elements[i], elements'[i])
            /\ Moved
       [] drag.action = "rotating" /\ selectedId # 0 /\ drag.activePageId # 0 ->
            /\ HasSelectedElement /\ HasId(pageSequence, drag.activePageId)
            /\ elements' = MapSelected(elements, selectedId,
                             LAMBDA el : [el EXCEPT !.rotation = (ang + 360) % 360])
            /\ Moved
       [] OTHER -> UNCHANGED <<elements, drag>>
  /\ lastResult' = "ok"
  /\ UNCHANGED <<docVars, pageSequence, currentPageIndex, selectedId, histVars, toolMode,
                 editingId, cfgVars, asyncVars, lastExport, nextId, loadCount>>
  /\ UNCHANGED <<renderVars, mergeVars, signVars>>

\* The element the drawing branch of handleMouseUp makes: the bounding box of
\* the stroke's points.
StrokeElement(id, pageId, mode, points) ==
  LET xs == [i \in DOMAIN points |-> points[i][1]]
      ys == [i \in DOMAIN points |-> points[i][2]]
      minX == SeqMin(xs)
      minY == SeqMin(ys)
      maxX == SeqMax(xs)
      maxY == SeqMax(ys)
  IN NewElement(id, pageId, IF mode = "highlight" THEN "highlight" ELSE "draw",
                minX, minY, maxX - minX, maxY - minY, "#0ea5e9", "", points)

\* The element the creating branch makes, released at newElStart + (w, h)
ShapeElement(id, pageId, mode, start, w, h) ==
  LET isLine == mode \in {"line", "arrow"}
  IN NewElement(id, pageId, mode,
                IF isLine THEN start[1] ELSE Min(start[1] + w, start[1]),
                IF isLine THEN start[2] ELSE Min(start[2] + h, start[2]),
                IF isLine THEN Max(MinCreate, w) ELSE Max(MinCreate, Abs(w)),
                IF isLine THEN Max(MinCreate, h) ELSE Max(MinCreate, Abs(h)),
                IF mode = "redact" THEN "#000000" ELSE "#0ea5e9",
                IF mode = "text" THEN "Type here..." ELSE "", <<>>)

\* handleMouseUp, the pointer released at newElStart + (w, h)
handleMouseUp(w, h) ==
  /\ drag.isDragging
  /\ CASE drag.action = "drawing" /\ drag.activePageId # 0 /\ Len(drag.currentPoints) > 2 ->
            /\ CanSave /\ nextId <= MaxIds
            /\ LET newEl == StrokeElement(nextId, drag.activePageId, toolMode, drag.currentPoints)
                   updated == Append(elements, newEl)
               IN /\ elements' = updated
                  /\ Record(saveToHistory(updated, pageSequence, history, historyIndex, snaps))
            /\ nextId' = nextId + 1
            /\ UNCHANGED <<toolMode, selectedId>>
       [] drag.action = "creating" /\ drag.activePageId # 0 ->
            IF HasId(pageSequence, drag.activePageId)
               /\ (toolMode = "text" \/ Abs(w) > MinDrag \/ Abs(h) > MinDrag)
            THEN /\ CanSave /\ nextId <= MaxIds
                 /\ LET newEl == ShapeElement(nextId, drag.activePageId, toolMode,
                                              drag.newElStart, w, h)
                        updated == Append(elements, newEl)
                    IN /\ elements' = updated
                       /\ Record(saveToHistory(updated, pageSequence, history, historyIndex, snaps))
                       /\ selectedId' = newEl.id
                 /\ toolMode' = IF toolMode # "text" THEN "select" ELSE toolMode
                 /\ nextId' = nextId + 1
            ELSE UNCHANGED <<elements, histVars, selectedId, toolMode, nextId>>
       [] drag.action \in {"moving", "resizing", "rotating"} ->
            /\ CanSave
            /\ Record(saveToHistory(elements, pageSequence, history, historyIndex, snaps))
            /\ UNCHANGED <<elements, selectedId, toolMode, nextId>>
       [] OTHER -> UNCHANGED <<elements, histVars, selectedId, toolMode, nextId>>
  /\ drag' = [drag EXCEPT !.isDragging = FALSE, !.action = "null", !.resizeDir = NoDir,
                          !.currentPoints = <<>>, !.activePageId = 0, !.moves = 0]
  /\ lastResult' = "ok"
  /\ UNCHANGED <<docVars, pageSequence, currentPageIndex, editingId, cfgVars, asyncVars,
                 lastExport, loadCount>>
  /\ UNCHANGED <<renderVars, mergeVars, signVars>>

\* handleTextareaInput of the text element being edited: onTextChange, then
\* onSizeChange with the textarea's scroll size
handleTextareaInput(text, scrollWidth, scrollHeight) ==
  /\ editingId # 0
  /\ HasId(elements, editingId)
  /\ LET newWidth == Max(MinTextWidth, scrollWidth)
         newHeight == Max(MinTextHeight, scrollHeight)
     IN elements' = MapSelected(elements, editingId,
                      LAMBDA el : [el EXCEPT !.content = text, !.width = newWidth,
                                             !.height = newHeight])
  /\ lastResult' = "ok"
  /\ UNCHANGED <<docVars, pageSequence, currentPageIndex, selectedId, histVars, uiVars,
                 cfgVars, asyncVars, lastExport, nextId, loadCount>>
  /\ UNCHANGED <<renderVars, mergeVars, signVars>>

\* onBlur of the textarea: setEditingId(null); onSaveHistory()
TextareaBlur ==
  /\ editingId # 0
  /\ CanSave
  /\ editingId' = 0
  /\ Record(saveToHistory(elements, pageSequence, history, historyIndex, snaps))
  /\ lastResult' = "ok"
  /\ UNCHANGED <<docVars, pageSequence, currentPageIndex, elements, selectedId, toolMode,
                 drag, cfgVars, asyncVars, lastExport, nextId, loadCount>>
  /\ UNCHANGED <<renderVars, mergeVars, signVars>>

(***************************************************************************)
(* Page numbers, export (download and flatten) and upload                  *)
(***************************************************************************)
BlankWidth == 612
BlankHeight == 792
Formats == {"n", "Page n", "Page n of total"}
Passwords == {"", "secret"}
\* Library calls of an export that may reject: PDFDocument.load, copyPages,
\* embedPng/embedJpg, save, and flatten's pdf.js getDocument of the new bytes.
FailPoints == {"load", "copy", "embed", "save", "reload"}
FailChoices == {{}} \cup {{f} : f \in FailPoints}

\* getPageNumberText of PDFPage, with its props pageIndex and totalPages
getPageNumberText(pageIndex, totalPages, format) ==
  LET n == pageIndex + 1
  IN IF format = "n" THEN <<n>>
     ELSE IF format = "Page n" THEN <<"Page ", n>>
     ELSE <<"Page ", n, " of ", totalPages>>

\* The text handleDownload and flattenPDF draw on the page at loop index i
ExportNumberTextByOriginal(i, meta, seq, format) ==
  LET n == meta.originalIndex
  IN IF format = "Page n" THEN <<"Page ", n>>
     ELSE IF format = "Page n of total" THEN <<"Page ", n, " of ", Len(seq)>>
     ELSE <<n>>

ExportNumberText(i, meta, seq, format) ==
  LET n == i + 1
  IN IF format = "Page n" THEN <<"Page ", n>>
     ELSE IF format = "Page n of total" THEN <<"Page ", n, " of ", Len(seq)>>
     ELSE <<n>>

\* A page of a PDF document: where its content comes from, its rotation, what
\* earlier exports drew into it (baked) and what this export drew (ops).
BlankPage == [src |-> <<"blank", BlankWidth, BlankHeight>>, rotation |-> 0,
              baked |-> <<>>, ops |-> <<>>]
UploadedDoc(docId, n) ==
  [k \in 1..n |-> [src |-> <<"upload", docId, k>>, rotation |-> 0, baked |-> <<>>, ops |-> <<>>]]
CopyPage(srcPage, rotation) ==
  [src |-> srcPage.src, rotation |-> rotation, baked |-> srcPage.baked \o srcPage.ops,
   ops |-> <<>>]

\* The page the export loop adds for meta
ExportPage(meta, bytes, fails) ==
  IF meta.originalIndex = -1
  THEN BlankPage
  ELSE LET targetIndex == meta.originalIndex - 1
       IN IF bytes # NoBytes /\ targetIndex >= 0 /\ targetIndex < Len(bytes.pages)
          THEN IF "copy" \in fails
               THEN BlankPage     \* catch (e) { page = outputDoc.addPage([612, 792]) }
               ELSE CopyPage(bytes.pages[targetIndex + 1], meta.rotation)
          ELSE BlankPage

DrawOp(op, el) == [op |-> op, el |-> el.id, text |-> <<el.content>>]

\* The first loop over a page's elements: the library call made for an element
\* ("none": no branch of the loop matches its type)
DrawCall(el) ==
  CASE el.type = "redact" -> "none"      \* continue
    [] el.type = "text" -> "drawText"
    [] el.type = "rect" -> "drawRectangle"
    [] el.type = "circle" -> "drawEllipse"
    [] el.type \in {"line", "arrow"} -> "drawLine"
    [] el.type = "image" -> "drawImage"
    [] OTHER -> "none"

\* An image whose embedPng / embedJpg rejects is skipped: catch (e) {}
IsDrawn(el, fails) ==
  /\ DrawCall(el) # "none"
  /\ ~ (el.type = "image" /\ "embed" \in fails)

ElementOps(pageElements, fails) ==
  LET drawn == SelectSeq(pageElements, LAMBDA el : IsDrawn(el, fails))
  IN [k \in DOMAIN drawn |-> DrawOp(DrawCall(drawn[k]), drawn[k])]

\* The second loop: the redactions, on top
RedactOps(pageElements) ==
  LET redacts == SelectSeq(pageElements, LAMBDA el : el.type = "redact")
  IN [k \in DOMAIN redacts |-> DrawOp("drawRectangle", redacts[k])]

\* One iteration of the export loop
ExportedPage(i, seq, els, bytes, numbering, fails) ==
  LET meta == seq[i + 1]
      page == ExportPage(meta, bytes, fails)
      number == IF numbering.enabled
                THEN <<[op |-> "pageNumber", el |-> 0,
                        text |-> ExportNumberText(i, meta, seq, numbering.format)]>>
                ELSE <<>>
      pageElements == ElementsOn(els, meta.id)
  IN [page EXCEPT !.ops = number
                          \o ElementOps(pageElements, fails)
                          \o RedactOps(pageElements)]

\* The library calls of an export that rejected
Rejected(seq, els, bytes, fails) ==
  LET loadFails == bytes # NoBytes /\ (bytes = BadBytes \/ "load" \in fails)
      copies == \E i \in DOMAIN seq : /\ seq[i].originalIndex # -1 /\ bytes # NoBytes
                                     /\ seq[i].originalIndex - 1 < Len(bytes.pages)
      embeds == \E k \in DOMAIN els : els[k].type = "image" /\ HasId(seq, els[k].pageId)
  IN IF loadFails THEN {"load"}
     ELSE ({"copy"} \cap (IF copies THEN fails ELSE {}))
          \cup ({"embed"} \cap (IF embeds THEN fails ELSE {}))
          \cup ({"save"} \cap fails)

\* The try block of handleDownload / flattenPDF up to outputDoc.save(): the
\* document, or thrown when load or save rejected.  The password is not read.
Export(seq, els, bytes, numbering, password, fails) ==
  LET rejected == Rejected(seq, els, bytes, fails)
  IN IF "load" \in rejected \/ "save" \in rejected
     THEN [thrown |-> TRUE, rejected |-> rejected, doc |-> <<>>]
     ELSE [thrown |-> FALSE, rejected |-> rejected,
           doc |-> [i \in DOMAIN seq |-> ExportedPage(i - 1, seq, els, bytes, numbering, fails)]]

ExportInput(seq, els, bytes) ==
  [pageSequence |-> PageVals(seq), elements |-> els, fileBytes |-> bytes,
   pageNumbering |-> pageNumbering, pdfPassword |-> pdfPassword]

\* The Download button (disabled without pages or while saving)
handleDownload(fails) ==
  /\ Len(pageSequence) > 0 /\ ~ isSaving
  /\ lastExport.n < MaxExports
  /\ LET out == Export(pageSequence, elements, fileBytes, pageNumbering, pdfPassword, fails)
         alert == IF out.thrown THEN "alert: Error generating PDF." ELSE "ok"
     IN /\ lastExport' = [kind |-> "download", n |-> lastExport.n + 1, thrown |-> out.thrown, doc |-> out.doc,
                          rejected |-> out.rejected, alert |-> alert,
                          input |-> ExportInput(pageSequence, elements, fileBytes)]
        /\ lastResult' = alert
  /\ UNCHANGED <<docVars, pageSequence, currentPageIndex, elements, selectedId, histVars,
                 uiVars, cfgVars, asyncVars, nextId, loadCount>>
  /\ UNCHANGED <<renderVars, mergeVars, signVars>>

NoFlatten == [active |-> FALSE]
NoLoad == [active |-> FALSE]

\* flattenPDF up to its first await (the button is disabled while saving or
\* without elements).  The call keeps the state of the render it was made in.
FlattenStart ==
  /\ ~ isSaving /\ Len(elements) # 0
  /\ Len(pageSequence) # 0
  /\ lastExport.n < MaxExports
  /\ isSaving' = TRUE
  /\ flattenRun' = [active |-> TRUE, pageSequence |-> pageSequence, elements |-> elements,
                    fileBytes |-> fileBytes, pageNumbering |-> pageNumbering,
                    pdfPassword |-> pdfPassword, history |-> history,
                    historyIndex |-> historyIndex]
  /\ lastResult' = "ok"
  /\ UNCHANGED <<docVars, pageSequence, currentPageIndex, elements, selectedId, histVars,
                 uiVars, cfgVars, loadRun, lastExport, nextId, loadCount>>
  /\ UNCHANGED <<renderVars, mergeVars, signVars>>

\* const normalizedSequence = pageSequence.map((p, idx) => ({...p, originalIndex: idx + 1, rotation: 0}))
NormalizedSequence(seq) ==
  [idx \in DOMAIN seq |-> [id |-> seq[idx].id, originalIndex |-> idx, rotation |-> 0, snap |-> 0]]

\* The rest of flattenPDF
FlattenFinish(fails) ==
  /\ flattenRun.active
  /\ LET run == flattenRun
         out == Export(run.pageSequence, run.elements, run.fileBytes, run.pageNumbering,
                       run.pdfPassword, fails)
         thrown == out.thrown \/ "reload" \in fails
         rejected == out.rejected \cup (IF out.thrown THEN {} ELSE {"reload"} \cap fails)
         alert == IF thrown THEN "alert: Error flattening PDF."
                  ELSE "alert: PDF successfully flattened."
         normalizedSequence == NormalizedSequence(run.pageSequence)
     IN /\ lastExport' = [kind |-> "flatten", n |-> lastExport.n + 1, thrown |-> thrown, doc |-> out.doc,
                          rejected |-> rejected, alert |-> alert,
                          input |-> [pageSequence |-> PageVals(run.pageSequence),
                                     elements |-> run.elements, fileBytes |-> run.fileBytes,
                                     pageNumbering |-> run.pageNumbering,
                                     pdfPassword |-> run.pdfPassword]]
        /\ lastResult' = alert
        /\ fileBytes' = IF out.thrown THEN fileBytes ELSE PdfBytes(out.doc)
        /\ IF thrown
           THEN UNCHANGED <<pdfDoc, pageSequence, elements, histVars>>
           ELSE /\ CanSaveFlatten
                /\ pdfDoc' = Len(out.doc)
                /\ pageSequence' = normalizedSequence
                /\ elements' = <<>>
                /\ Record(saveToHistory(<<>>, normalizedSequence, run.history,
                                        run.historyIndex, snaps))
  /\ isSaving' = FALSE
  /\ flattenRun' = NoFlatten
  /\ UNCHANGED <<currentPageIndex, selectedId, uiVars, cfgVars, loadRun, nextId, loadCount>>
  /\ UNCHANGED <<renderVars, mergeVars, signVars>>

\* handleFileUpload of the editor up to its first await; numPages 0 is a file
\* pdf.js rejects.
LoadStart(numPages) ==
  /\ ~ loadRun.active
  /\ loadCount < MaxLoads
  /\ loadCount' = loadCount + 1
  /\ loadRun' = [active |-> TRUE, numPages |-> numPages, history |-> history,
                 historyIndex |-> historyIndex]
  /\ lastResult' = "ok"
  /\ UNCHANGED <<docVars, pageSequence, currentPageIndex, elements, selectedId, histVars,
                 uiVars, cfgVars, isSaving, flattenRun, lastExport, nextId>>
  /\ UNCHANGED <<renderVars, mergeVars, signVars>>

InitialSequence(first, numPages) ==
  [i \in 1..numPages |-> [id |-> first + i - 1, originalIndex |-> i, rotation |-> 0, snap |-> 0]]

\* The rest of handleFileUpload; textOk is whether the text extraction that
\* follows the state updates succeeds.
LoadFinish(textOk) ==
  /\ loadRun.active
  /\ LET n == loadRun.numPages
     IN IF n = 0
        THEN /\ fileBytes' = BadBytes
             /\ lastResult' = "alert: Error loading PDF"
             /\ UNCHANGED <<pdfDoc, pageSequence, currentPageIndex, elements, histVars, nextId>>
        ELSE /\ CanSave
             /\ nextId + n - 1 <= MaxIds
             /\ fileBytes' = PdfBytes(UploadedDoc(loadCount, n))
             /\ pdfDoc' = n
             /\ pageSequence' = InitialSequence(nextId, n)
             /\ currentPageIndex' = 0
             /\ elements' = <<>>
             /\ Record(saveToHistory(<<>>, InitialSequence(nextId, n), loadRun.history,
                                     loadRun.historyIndex, snaps))
             /\ nextId' = nextId + n
             /\ lastResult' = IF textOk THEN "ok" ELSE "alert: Error loading PDF"
  /\ loadRun' = NoLoad
  /\ UNCHANGED <<selectedId, uiVars, cfgVars, isSaving, flattenRun, lastExport, loadCount>>
  /\ UNCHANGED <<renderVars, mergeVars, signVars>>

\* Page Numbering button and the Format select of its panel
TogglePageNumbering ==
  /\ pageNumbering' = [pageNumbering EXCEPT !.enabled = ~ @]
  /\ lastResult' = "ok"
  /\ UNCHANGED <<docVars, pageSequence, currentPageIndex, elements, selectedId, histVars,
                 uiVars, pdfPassword, asyncVars, lastExport, nextId, loadCount>>
  /\ UNCHANGED <<renderVars, mergeVars, signVars>>

SetNumberFormat(f) ==
  /\ pageNumbering.enabled
  /\ pageNumbering' = [pageNumbering EXCEPT !.format = f]
  /\ lastResult' = "ok"
  /\ UNCHANGED <<docVars, pageSequence, currentPageIndex, elements, selectedId, histVars,
                 uiVars, pdfPassword, asyncVars, lastExport, nextId, loadCount>>
  /\ UNCHANGED <<renderVars, mergeVars, signVars>>

\* The password field of the Protect Document dialog, and its Remove button
setPdfPassword(p) ==
  /\ pdfPassword' = p
  /\ lastResult' = "ok"
  /\ UNCHANGED <<docVars, pageSequence, currentPageIndex, elements, selectedId, histVars,
                 uiVars, pageNumbering, asyncVars, lastExport, nextId, loadCount>>
  /\ UNCHANGED <<renderVars, mergeVars, signVars>>

EditInit ==
  /\ pdfDoc = 0
  /\ fileBytes = NoBytes
  /\ pageSequence = <<>>
  /\ currentPageIndex = 0
  /\ elements = <<>>
  /\ selectedId = 0
  /\ editingId = 0
  /\ toolMode = "select"
  /\ snaps = <<>>
  /\ history = <<>>
  /\ historyIndex = -1
  /\ drag = Idle
  /\ pageNumbering = [enabled |-> FALSE, format |-> "Page n of total"]
  /\ pdfPassword = ""
  /\ isSaving = FALSE
  /\ loadRun = NoLoad
  /\ flattenRun = NoFlatten
  /\ lastExport = NoExport
  /\ lastResult = "ok"
  /\ nextId = 1
  /\ loadCount = 0

\* The editor's pages, elements and history: every handler that records or
\* restores a snapshot, without the pointer gestures.
NextEdit ==
  \/ \E n \in 0..MaxDocPages : LoadStart(n)
  \/ \E t \in BOOLEAN : LoadFinish(t)
  \/ NewDocument
  \/ \E type \in {"rotate", "move", "delete", "duplicate", "blank"}, param \in {"cw", "ccw", "up", "down"} :
       /\ type = "rotate" => param \in {"cw", "ccw"}
       /\ type = "move" => param \in {"up", "down"}
       /\ type \notin {"rotate", "move"} => param = "cw"
       /\ type = "rotate" => CanSave
       /\ OrganizeToolbar(type, param)
  \/ \E type \in {"rotate", "delete"}, i \in 0..(MaxPages - 1) :
       /\ type = "rotate" => CanSave
       /\ OrganizeThumbnail(type, i)
  \/ \E i, j \in 0..(MaxPages - 1) : handlePageDrop(i, j)
  \/ \E i \in DOMAIN pageSequence : scrollToPage(pageSequence[i].id)
  \/ undo
  \/ redo
  \/ ResetButton
  \/ handleImageUpload
  \/ UseSignature
  \/ PanelDelete
  \/ \E c \in Colors : PanelColor(c)
  \/ FlattenStart
  \/ \E f \in FailChoices : FlattenFinish(f)

\* The history specification: pages are rotated, elements come and go, and
\* undo and redo move between the snapshots
NextHistory ==
  \/ pageSequence = <<>> /\ NewDocument
  \/ \E n \in 1..MaxDocPages : pageSequence = <<>> /\ LoadStart(n)
  \/ LoadFinish(TRUE)
  \/ \E param \in {"cw", "ccw"} : OrganizeToolbar("rotate", param)
  \/ \E i \in 0..(MaxPages - 1) : OrganizeThumbnail("rotate", i)
  \/ OrganizeToolbar("blank", "cw")
  \/ handleImageUpload
  \/ PanelDelete
  \/ undo
  \/ redo

\* In the gesture specification a held pointer clicks nothing else
PointerFree == ~ drag.isDragging

\* The editor's pointer gestures and element properties, on blank documents
NextGesture ==
  \/ PointerFree /\ pageSequence = <<>> /\ NewDocument
  \/ \E m \in ToolModes : PointerFree /\ setToolMode(m)
  \/ \E i \in 1..MaxPages, start \in StartPoints : PointerFree /\ CanSave /\ PageMouseDown(i, start)
  \/ \E k \in 1..MaxIds : PointerFree /\ CanSave /\ ElementMouseDown(k)
  \/ \E dir \in ResizeDirs : PointerFree /\ CanSave /\ ResizeHandleMouseDown(dir)
  \/ PointerFree /\ CanSave /\ RotateHandleMouseDown
  \/ \E dx, dy \in Deltas, pt \in DrawPoints, ang \in Angles : handleMouseMove(dx, dy, pt, ang)
  \/ \E r \in Releases : handleMouseUp(r[1], r[2])
  \/ \E text \in Texts, sw, sh \in ScrollSizes : PointerFree /\ CanSave /\ handleTextareaInput(text, sw, sh)
  \/ PointerFree /\ TextareaBlur
  \/ PointerFree /\ handleImageUpload
  \/ PointerFree /\ UseSignature
  \/ PointerFree /\ bringToFront
  \/ PointerFree /\ PanelDelete
  \/ PointerFree /\ OrganizeToolbar("duplicate", "cw")
  \/ PointerFree /\ undo
  \/ PointerFree /\ redo

\* The export specification follows the editor until MaxExports exports are done
MaxElements == 1
ElementsLeft == Len(elements) < MaxElements
ExportsLeft == lastExport.n < MaxExports
Editing == ExportsLeft /\ PointerFree

\* Export: what download and flatten make of the pages, the elements, the page
\* numbering and the password
NextExport ==
  \/ \E n \in 0..MaxDocPages : Editing /\ pageSequence = <<>> /\ LoadStart(n)
  \/ \E t \in BOOLEAN : Editing /\ LoadFinish(t)
  \/ Editing /\ pageSequence = <<>> /\ ~ loadRun.active /\ NewDocument
  \/ \E type \in {"rotate", "blank"} : Editing /\ OrganizeToolbar(type, "cw")
  \/ \E i, j \in 0..(MaxPages - 1) : Editing /\ handlePageDrop(i, j)
  \/ \E m \in ToolModes \ {"select"} : Editing /\ setToolMode(m)
  \/ \E i \in 1..MaxPages, start \in StartPoints : Editing /\ CanSave /\ ElementsLeft /\ PageMouseDown(i, start)
  \/ \E pt \in StrokeEnds : ExportsLeft /\ handleMouseMove(0, 0, pt, 0)
  \/ ExportsLeft /\ handleMouseUp(30, 30)
  \/ Editing /\ ElementsLeft /\ handleImageUpload
  \/ Editing /\ TogglePageNumbering
  \/ \E f \in Formats : Editing /\ SetNumberFormat(f)
  \/ \E p \in Passwords : Editing /\ setPdfPassword(p)
  \/ \E f \in FailChoices : PointerFree /\ handleDownload(f)
  \/ PointerFree /\ FlattenStart
  \/ \E f \in FailChoices : FlattenFinish(f)

(***************************************************************************)
(* PDFSignTool: signatures placed on the page                              *)
(***************************************************************************)
SigMin == 30          \* Math.max(30, ...), proposedWidth >= 30
SigWidth == 200
SigHeight == 100
SigOrigin == 50
SigStep == 20

\* Where the pointer goes down and where it moves to (clientX, clientY)
SignDowns == {<<100, 100>>}
SignPoints == {<<-80, 20>>, <<280, 180>>}
SignDirs == {"nw", "ne", "sw", "se"}

NoResize == [active |-> FALSE]
NoSignUpload == [active |-> FALSE]

SigIndex(id) == CHOOSE k \in DOMAIN signatures : signatures[k].id = id
HasSig(sigs, id) == \E k \in DOMAIN sigs : sigs[k].id = id

\* The signature saveSignature and handleSignatureUpload make, placed after the
\* signatures of the list sigs
NewSig(id, sigs) ==
  [id |-> id, x |-> SigOrigin + Len(sigs) * SigStep, y |-> SigOrigin + Len(sigs) * SigStep,
   width |-> SigWidth, height |-> SigHeight]

\* handleFileUpload of the sign tool: the signatures are dropped; ok is whether
\* pdf.js accepts the file
SignHandleFileUpload(ok) ==
  /\ signPdfDoc' = ok
  /\ signatures' = <<>>
  /\ selectedSignatureId' = 0
  /\ UNCHANGED <<signIsDragging, dragOffset, resizeState, signUpload, nextSigId, signMoves>>
  /\ UNCHANGED <<renderVars, mergeVars, editVars>>

\* "Use Signature" of the dialog
saveSignature ==
  /\ signPdfDoc
  /\ nextSigId <= MaxSigIds /\ Len(signatures) < MaxSignatures
  /\ signatures' = Append(signatures, NewSig(nextSigId, signatures))
  /\ selectedSignatureId' = nextSigId
  /\ nextSigId' = nextSigId + 1
  /\ UNCHANGED <<signPdfDoc, signIsDragging, dragOffset, resizeState, signUpload, signMoves>>
  /\ UNCHANGED <<renderVars, mergeVars, editVars>>

\* handleSignatureUpload: reader.readAsDataURL(file); onload belongs to this render
handleSignatureUpload ==
  /\ signPdfDoc
  /\ ~ signUpload.active
  /\ nextSigId <= MaxSigIds /\ Len(signatures) < MaxSignatures
  /\ signUpload' = [active |-> TRUE, signatures |-> signatures]
  /\ UNCHANGED <<signPdfDoc, signatures, selectedSignatureId, signIsDragging, dragOffset,
                 resizeState, nextSigId, signMoves>>
  /\ UNCHANGED <<renderVars, mergeVars, editVars>>

\* reader.onload of handleSignatureUpload: setSignatures([...signatures, newSig])
\* with the signatures of the render that started the upload
SignatureUploadLoaded ==
  /\ signUpload.active
  /\ nextSigId <= MaxSigIds
  /\ signatures' = Append(signUpload.signatures, NewSig(nextSigId, signUpload.signatures))
  /\ selectedSignatureId' = nextSigId
  /\ nextSigId' = nextSigId + 1
  /\ signUpload' = NoSignUpload
  /\ UNCHANGED <<signPdfDoc, signIsDragging, dragOffset, resizeState, signMoves>>
  /\ UNCHANGED <<renderVars, mergeVars, editVars>>

handleDragStart(pt, id) ==
  /\ signPdfDoc
  /\ HasSig(signatures, id)
  /\ LET sig == signatures[SigIndex(id)]
     IN /\ selectedSignatureId' = id
        /\ signIsDragging' = TRUE
        /\ dragOffset' = [x |-> pt[1] - sig.x, y |-> pt[2] - sig.y]
  /\ UNCHANGED <<signPdfDoc, signatures, resizeState, signUpload, nextSigId, signMoves>>
  /\ UNCHANGED <<renderVars, mergeVars, editVars>>

\* The handles are rendered on the selected signature only
handleResizeStart(pt, direction, id) ==
  /\ signPdfDoc
  /\ id = selectedSignatureId
  /\ HasSig(signatures, id)
  /\ LET sig == signatures[SigIndex(id)]
     IN resizeState' = [active |-> TRUE, direction |-> direction,
                        startX |-> pt[1], startY |-> pt[2],
                        startWidth |-> sig.width, startHeight |-> sig.height,
                        startLeft |-> sig.x, startTop |-> sig.y]
  /\ selectedSignatureId' = id
  /\ UNCHANGED <<signPdfDoc, signatures, signIsDragging, dragOffset, signUpload, nextSigId,
                 signMoves>>
  /\ UNCHANGED <<renderVars, mergeVars, editVars>>

SignIncludes(direction, c) ==
  \/ (c = "n" /\ direction \in {"nw", "ne"})
  \/ (c = "s" /\ direction \in {"sw", "se"})
  \/ (c = "w" /\ direction \in {"nw", "sw"})
  \/ (c = "e" /\ direction \in {"ne", "se"})

\* (a resize that took every proposed size)
SignResizeNoMin(s, rs, pt) ==
  LET deltaX == pt[1] - rs.startX
      deltaY == pt[2] - rs.startY
  IN [s EXCEPT !.width = IF SignIncludes(rs.direction, "e") THEN rs.startWidth + deltaX
                         ELSE rs.startWidth - deltaX,
               !.height = IF SignIncludes(rs.direction, "s") THEN rs.startHeight + deltaY
                          ELSE rs.startHeight - deltaY]

\* The resizing branch of handleContainerMouseMove
SignResize(s, rs, pt) ==
  LET deltaX == pt[1] - rs.startX
      deltaY == pt[2] - rs.startY
      proposedWidth == rs.startWidth - deltaX
      proposedHeight == rs.startHeight - deltaY
      west == SignIncludes(rs.direction, "w") /\ proposedWidth >= SigMin
      north == SignIncludes(rs.direction, "n") /\ proposedHeight >= SigMin
      newWidth == IF west THEN proposedWidth
                  ELSE IF SignIncludes(rs.direction, "e")
                       THEN Max(SigMin, rs.startWidth + deltaX)
                       ELSE rs.startWidth
      newHeight == IF north THEN proposedHeight
                   ELSE IF SignIncludes(rs.direction, "s")
                        THEN Max(SigMin, rs.startHeight + deltaY)
                        ELSE rs.startHeight
      newX == IF west THEN rs.startLeft + deltaX ELSE rs.startLeft
      newY == IF north THEN rs.startTop + deltaY ELSE rs.startTop
  IN [s EXCEPT !.x = newX, !.y = newY, !.width = newWidth, !.height = newHeight]

handleContainerMouseMove(pt) ==
  /\ signMoves < MaxSignMoves
  /\ signMoves' = signMoves + 1
  /\ IF ~ HasSig(signatures, selectedSignatureId)
     THEN UNCHANGED signatures
     ELSE IF signIsDragging
          THEN signatures' = [k \in DOMAIN signatures |->
                 IF signatures[k].id = selectedSignatureId
                 THEN [signatures[k] EXCEPT !.x = pt[1] - dragOffset.x, !.y = pt[2] - dragOffset.y]
                 ELSE signatures[k]]
          ELSE IF resizeState.active
               THEN signatures' = [k \in DOMAIN signatures |->
                      IF signatures[k].id = selectedSignatureId
                      THEN SignResize(signatures[k], resizeState, pt)
                      ELSE signatures[k]]
               ELSE UNCHANGED signatures
  /\ UNCHANGED <<signPdfDoc, selectedSignatureId, signIsDragging, dragOffset, resizeState,
                 signUpload, nextSigId>>
  /\ UNCHANGED <<renderVars, mergeVars, editVars>>

\* onMouseUp and onMouseLeave of the tool's root element
handleContainerMouseUp ==
  /\ signIsDragging' = FALSE
  /\ resizeState' = NoResize
  /\ UNCHANGED <<signPdfDoc, signatures, selectedSignatureId, dragOffset, signUpload,
                 nextSigId, signMoves>>
  /\ UNCHANGED <<renderVars, mergeVars, editVars>>

handleBackgroundClick ==
  /\ selectedSignatureId' = 0
  /\ UNCHANGED <<signPdfDoc, signatures, signIsDragging, dragOffset, resizeState, signUpload,
                 nextSigId, signMoves>>
  /\ UNCHANGED <<renderVars, mergeVars, editVars>>

handleDeleteSignature(id) ==
  /\ signPdfDoc
  /\ HasSig(signatures, id)
  /\ signatures' = SelectSeq(signatures, LAMBDA sg : sg.id # id)
  /\ selectedSignatureId' = IF selectedSignatureId = id THEN 0 ELSE selectedSignatureId
  /\ UNCHANGED <<signPdfDoc, signIsDragging, dragOffset, resizeState, signUpload, nextSigId,
                 signMoves>>
  /\ UNCHANGED <<renderVars, mergeVars, editVars>>

SignInit ==
  /\ signPdfDoc = FALSE
  /\ signatures = <<>>
  /\ selectedSignatureId = 0
  /\ signIsDragging = FALSE
  /\ dragOffset = [x |-> 0, y |-> 0]
  /\ resizeState = NoResize
  /\ signUpload = NoSignUpload
  /\ nextSigId = 1
  /\ signMoves = 0

\* The pointer is up: the root's onMouseUp / onMouseLeave end every gesture
SignPointerUp == ~ signIsDragging /\ ~ resizeState.active

NextSign ==
  \/ \E ok \in BOOLEAN : SignPointerUp /\ SignHandleFileUpload(ok)
  \/ SignPointerUp /\ saveSignature
  \/ SignPointerUp /\ handleSignatureUpload
  \/ SignatureUploadLoaded
  \/ \E pt \in SignDowns, k \in DOMAIN signatures :
       SignPointerUp /\ handleDragStart(pt, signatures[k].id)
  \/ \E pt \in SignDowns, d \in SignDirs, k \in DOMAIN signatures :
       SignPointerUp /\ handleResizeStart(pt, d, signatures[k].id)
  \/ \E pt \in SignPoints : handleContainerMouseMove(pt)
  \/ handleContainerMouseUp
  \/ SignPointerUp /\ handleBackgroundClick
  \/ \E k \in DOMAIN signatures : SignPointerUp /\ handleDeleteSignature(signatures[k].id)

(***************************************************************************)
(* Specifications                                                          *)
(***************************************************************************)
Init == RenderInit /\ MergeInit /\ EditInit /\ SignInit

SpecRender == Init /\ [][NextRender]_vars
SpecMerge == Init /\ [][NextMerge]_vars
Spec == Init /\ [][NextEdit]_vars
SpecGesture == Init /\ [][NextGesture]_vars
SpecExport == Init /\ [][NextExport]_vars
SpecHistory == Init /\ [][NextHistory]_vars
SpecSign == Init /\ [][NextSign]_vars

(***************************************************************************)
(* Properties of the render effect (SpecRender)                            *)
(***************************************************************************)
\* The render tasks of the canvas that were started and have neither completed,
\* failed nor been cancelled
TasksInFlight == {i \in DOMAIN rRuns : rRuns[i].pc = "rendering"}

\* C2: on a canvas at most one render task that has not been cancelled is in
\* flight at any time: when a new task is started, every task started earlier
\* has completed or been cancelled.
C2_AtMostOneRenderTask == Cardinality(TasksInFlight) <= 1

RendersSettled == \A i \in DOMAIN rRuns : rRuns[i].pc \notin {"getPage", "rendering"}

\* C3: stale renders never win: once every run of the effect has settled and
\* the run for the latest parameters has completed (or the latest page is a
\* blank one, drawn at once), the canvas shows the page of the latest
\* parameters.
C3_LatestRenderWins ==
  (/\ RendersSettled
   /\ rProps # NoProps
   /\ rProps # BlankProps => rRuns # <<>> /\ rRuns[Len(rRuns)].pc = "done")
  => canvasShown = rProps

(***************************************************************************)
(* Properties of the merge tool (SpecMerge)                                *)
(***************************************************************************)
RECURSIVE Concatenation(_)
Concatenation(fs) ==
  IF fs = <<>> THEN <<>> ELSE PagesOf(Head(fs).file) \o Concatenation(Tail(fs))

PageCounts(fs) == [i \in DOMAIN fs |-> NumPagesOf(fs[i].file)]

\* C10: the document a successful merge downloads is the concatenation, in the
\* order of the list at the moment the merge was started, of all pages of each
\* file in their original order; its page count is the sum of the files' page
\* counts; edits of the list during the merge do not change it.
C10_MergeIsConcatenation ==
  mergeDownload.n # 0 =>
    /\ mergeDownload.pages = Concatenation(mergeDownload.listed)
    /\ Len(mergeDownload.pages) = SeqSum(PageCounts(mergeDownload.listed))

\* C10 witness: a merge of files with different page counts has been downloaded
\* and the list was edited while it ran.
C10_Witness ==
  /\ mergeDownload.n # 0
  /\ Len(mergeDownload.pages) >= 3
  /\ mergeDownload.current # mergeDownload.listed

\* A mergePdfs call ends in this step
MergeEnds == mergeRun.active /\ ~ mergeRun'.active

\* C11: a merge is all-or-nothing: a merge over a list holding a file that
\* cannot be loaded ends with no download; a merge that ends with no download
\* (a read, load, copy or save failed) shows the alert once and leaves the file
\* list as it was; a merge that downloads shows no alert; isMerging is false
\* after either.
C11_FailedMergeIsAllOrNothing ==
  [][MergeEnds =>
       /\ isMerging' = FALSE
       /\ files' = files
       /\ (\E i \in DOMAIN mergeRun.files : ~ IsValidPdf(mergeRun.files[i].file))
            => mergeDownload' = mergeDownload
       /\ IF mergeDownload' = mergeDownload
          THEN mergeAlert' = mergeAlert + 1
          ELSE /\ mergeAlert' = mergeAlert
               /\ mergeDownload'.listed = mergeRun.files]_vars

\* C11 witness: a merge failed on its second file, after the pages of the first
\* had been copied: the alert was shown and nothing was downloaded.
C11_Witness ==
  /\ mergeCount > 0 /\ ~ mergeRun.active /\ ~ isMerging
  /\ mergeAlert = mergeCount /\ mergeDownload.n = 0
  /\ Len(files) >= 2 /\ IsValidPdf(files[1].file) /\ ~ IsValidPdf(files[2].file)

(***************************************************************************)
(* Properties of the editor's history and pages (Spec)                     *)
(***************************************************************************)
\* C1: in every state where undo is enabled (historyIndex > 0) and no drag or
\* text edit is in progress, undo followed at once by redo gives back exactly
\* the elements and the pageSequence of before the undo.
C1_UndoThenRedoRestores ==
  (historyIndex > 0 /\ ~ drag.isDragging /\ editingId = 0) =>
    LET after == RedoOf(UndoOf(Cur))
    IN /\ after.elements = elements
       /\ PageVals(after.pageSequence) = PageVals(pageSequence)

\* This step recorded a snapshot (saveToHistory was called)
Recorded == Len(snaps') = Len(snaps) + 1

\* C13: immediately after any operation that records history, the snapshot
\* at history[historyIndex] equals the current elements and pageSequence.
C13_SnapshotTracksDocument ==
  [][Recorded =>
       /\ historyIndex' >= 0 /\ historyIndex' < Len(history')
       /\ snaps'[history'[historyIndex' + 1]].elements = elements'
       /\ snaps'[history'[historyIndex' + 1]].sequence = PageVals(pageSequence')]_vars

\* A handleFileUpload whose document pdf.js accepted ends in this step
LoadSucceeds == loadRun.active /\ ~ loadRun'.active /\ loadRun.numPages # 0

\* C14: after any successful handleFileUpload, history holds exactly one
\* snapshot, made of no elements and the new document's initial page sequence,
\* and historyIndex is 0.
C14_LoadResetsHistory ==
  [][LoadSucceeds =>
       /\ Len(history') = 1 /\ historyIndex' = 0
       /\ snaps'[history'[1]].elements = <<>>
       /\ snaps'[history'[1]].sequence = PageVals(pageSequence')]_vars

\* The history cursor is valid
HistoryCursorValid ==
  /\ Len(history) <= HistoryLimit
  /\ -1 <= historyIndex /\ historyIndex <= Len(history) - 1
  /\ historyIndex = -1 => history = <<>>

\* A recording leaves the cursor on the last snapshot and keeps no snapshot
\* that was after the cursor
RecordDiscardsRedoTail ==
  Recorded =>
    /\ historyIndex' = Len(history') - 1
    /\ \A k \in (historyIndex + 2)..Len(history) :
         \A j \in DOMAIN history' : history'[j] # history[k]

\* saveToHistory on a history of HistoryLimit snapshots with the cursor on the
\* last one: the oldest is dropped and the new one is the last
RecordDropsOldest ==
  LET held == [i \in 1..HistoryLimit |-> 100 + i]
      h == saveToHistory(<<>>, <<>>, held, HistoryLimit - 1, <<>>)
  IN /\ Len(h.history) = HistoryLimit
     /\ h.historyIndex = HistoryLimit - 1
     /\ SubSeq(h.history, 1, HistoryLimit - 1) = Tail(held)
     /\ h.history[HistoryLimit] = 1

\* C15: history.length <= 30 and -1 <= historyIndex <= history.length - 1
\* always, with historyIndex = -1 only when history is empty; recording when 30
\* snapshots are held drops the oldest; recording after an undo discards every
\* snapshot after historyIndex, so that historyIndex = history.length - 1.
C15_HistoryBoundedCursorValid ==
  /\ HistoryCursorValid
  /\ [][HistoryCursorValid' /\ RecordDropsOldest /\ RecordDiscardsRedoTail]_vars

\* C16: no operation changes the content (elements, page ids, originalIndex,
\* rotation) of a snapshot already stored; a rotation after an undo or a redo
\* leaves every stored snapshot's rotation as it was recorded.
C16_SnapshotsAreImmutable ==
  [][\A k \in DOMAIN snaps : snaps'[k] = snaps[k]]_vars

\* C17: in every state with a non-empty pageSequence the current-page cursor
\* points at an existing page: 0 <= currentPageIndex < pageSequence.length.
C17_CurrentPageExists ==
  pageSequence # <<>> =>
    (0 <= currentPageIndex /\ currentPageIndex < Len(pageSequence))

\* A click on a Delete of the Organize tab: the toolbar's or a thumbnail's
DeleteRequested ==
  \/ OrganizeToolbar("delete", "cw")
  \/ \E i \in 0..(MaxPages - 1) : OrganizeThumbnail("delete", i)

\* C7: a pageSequence that is non-empty stays non-empty, and a delete requested
\* when exactly one page remains is rejected with the alert and leaves
\* pageSequence, elements, currentPageIndex, history and historyIndex as they
\* were.
C7_KeepsAtLeastOnePage ==
  [][/\ Len(pageSequence) > 0 => Len(pageSequence') > 0
     /\ (Len(pageSequence) = 1 /\ DeleteRequested) =>
          /\ lastResult' = "alert: Document must have at least one page."
          /\ UNCHANGED <<pageSequence, elements, currentPageIndex, history, historyIndex>>]_vars

(***************************************************************************)
(* Properties of the sign tool (SpecSign)                                  *)
(***************************************************************************)
\* C18: in every reachable state of the sign tool each signature has
\* width >= 30 and height >= 30.
C18_SignatureMinimumSize ==
  \A k \in DOMAIN signatures :
    signatures[k].width >= SigMin /\ signatures[k].height >= SigMin

\* C18 witness: a signature was resized down to the minimum width, a further
\* gesture moved it from the place it was added at, the pointer is up again
\* and a second signature is on the page.
C18_Witness ==
  /\ SignPointerUp
  /\ Len(signatures) = 2
  /\ \E k \in DOMAIN signatures :
       /\ signatures[k].width = SigMin
       /\ signatures[k].x # SigOrigin + (k - 1) * SigStep

(***************************************************************************)
(* Properties of the overlay elements (SpecGesture)                        *)
(***************************************************************************)
Strokes == {"draw", "highlight"}

\* C6 as the spec has it: in every reachable state every overlay element has
\* width >= 10 and height >= 10.
C6_MinimumElementSize ==
  \A k \in DOMAIN elements :
    elements[k].width >= MinResize /\ elements[k].height >= MinResize

\* C6 amended: in every reachable state every overlay element that is not a
\* freehand stroke (draw, highlight) has width >= 10 and height >= 10; a
\* stroke has the width and height of the bounding box of its points.
C6_MinimumSizeExceptStrokes ==
  \A k \in DOMAIN elements :
    elements[k].type \notin Strokes =>
      elements[k].width >= MinResize /\ elements[k].height >= MinResize

\* C6 witness: a shape was resized down to the minimum width and the gesture
\* was ended and recorded.
C6_Witness ==
  /\ \E k \in DOMAIN elements :
       elements[k].type \notin Strokes /\ elements[k].width = MinResize
  /\ ~ drag.isDragging
  /\ Len(history) = 2 /\ historyIndex = 1

(***************************************************************************)
(* Properties of download and flatten (SpecExport)                         *)
(***************************************************************************)
ErrorAlerts == {"alert: Error generating PDF.", "alert: Error flattening PDF."}

\* C4: whenever a library call of an export rejected (the load of the source,
\* the copy of a page, the embedding of an image, the save, the reload), the
\* user was shown an error alert.
C4_EveryFailureAlerts ==
  (lastExport.n # 0 /\ lastExport.rejected # {}) => lastExport.alert \in ErrorAlerts

\* The export drew element el onto its page number i
DrawnOn(i, el) ==
  \E o \in DOMAIN lastExport.doc[i].ops : lastExport.doc[i].ops[o].el = el.id

\* C5: when a download or a flatten completed with no library call rejecting,
\* every element on a page of pageSequence, whatever its type, has been drawn
\* onto the corresponding output page, and flatten removed from the element
\* list only elements that it drew.
C5_ExportReplaysEveryElement ==
  (lastExport.n # 0 /\ ~ lastExport.thrown /\ lastExport.rejected = {}) =>
    LET seq == lastExport.input.pageSequence
        els == lastExport.input.elements
    IN /\ \A i \in DOMAIN seq : \A k \in DOMAIN els :
            els[k].pageId = seq[i].id => DrawnOn(i, els[k])
       /\ lastExport.kind = "flatten" =>
            \A k \in DOMAIN els :
              HasId(elements, els[k].id) \/ \E i \in DOMAIN seq : DrawnOn(i, els[k])

\* The page number the preview shows on the page at position i (pageIndex i - 1)
\* in the state the export started from
PreviewNumberText(i) ==
  getPageNumberText(i - 1, Len(lastExport.input.pageSequence),
                    lastExport.input.pageNumbering.format)

\* C8: with page numbering enabled, the text an export draws on the page at
\* 0-based position i is the one the preview shows there, made of i + 1 and
\* the number of pages only: the pages are numbered 1..N in sequence order.
C8_PageNumbersFollowOrder ==
  (lastExport.n # 0 /\ ~ lastExport.thrown /\ lastExport.input.pageNumbering.enabled) =>
    \A i \in DOMAIN lastExport.doc :
      LET numbers == SelectSeq(lastExport.doc[i].ops, LAMBDA o : o.op = "pageNumber")
      IN /\ Len(numbers) = 1
         /\ numbers[1].text = PreviewNumberText(i)
         /\ numbers[1].text[IF lastExport.input.pageNumbering.format = "n" THEN 1 ELSE 2] = i

\* C8 witness: numbered pages were exported after a reorder or an insertion, so
\* that a page's position differs from its place in the uploaded file.
C8_Witness ==
  /\ lastExport.n # 0 /\ ~ lastExport.thrown
  /\ lastExport.input.pageNumbering.enabled
  /\ Len(lastExport.doc) >= 2
  /\ \E i \in DOMAIN lastExport.input.pageSequence :
       lastExport.input.pageSequence[i].originalIndex \notin {i, -1}

\* The source page the download is to copy for meta, when there is one
HasSourcePage(meta, bytes) ==
  /\ meta.originalIndex # -1
  /\ bytes # NoBytes
  /\ meta.originalIndex - 1 >= 0 /\ meta.originalIndex - 1 < Len(bytes.pages)

\* C12: the document a download produces has exactly pageSequence.length
\* pages, in pageSequence order: page i is a blank 612x792 page when
\* pageSequence[i].originalIndex is -1, when there is no source document or
\* when the index is outside the source's range, and otherwise a copy of source
\* page originalIndex - 1 with its rotation set to pageSequence[i].rotation.
C12_DownloadFollowsPageSequence ==
  (lastExport.kind = "download" /\ ~ lastExport.thrown) =>
    LET seq == lastExport.input.pageSequence
        bytes == lastExport.input.fileBytes
    IN /\ Len(lastExport.doc) = Len(seq)
       /\ \A i \in DOMAIN seq :
            IF HasSourcePage(seq[i], bytes)
            THEN /\ lastExport.doc[i].src = bytes.pages[seq[i].originalIndex].src
                 /\ lastExport.doc[i].rotation = seq[i].rotation
            ELSE /\ lastExport.doc[i].src = <<"blank", BlankWidth, BlankHeight>>
                 /\ lastExport.doc[i].rotation = 0

\* C9: with a non-empty password set, the downloaded document differs from the
\* one downloaded from the same state with no password.
C9_PasswordChangesDownload ==
  (/\ lastExport.kind = "download" /\ ~ lastExport.thrown /\ lastExport.rejected = {}
   /\ lastExport.input.pdfPassword # "")
  => LET inp == lastExport.input
     IN lastExport.doc # Export(inp.pageSequence, inp.elements, inp.fileBytes,
                                inp.pageNumbering, "", {}).doc

====
